---- MODULE Spec2Model ----
(***************************************************************************)
(* Model of app.py: the Streamlit "AI Money Machine" generator.            *)
(*                                                                         *)
(* Python strings are sequences of characters, so that str.lower,          *)
(* str.split, concatenation and substring tests are computed and not       *)
(* assumed.  An ASCII character is the one-character string; any other     *)
(* character is written by its code point, "U+00C9".  A file path is the   *)
(* pair <<directory, base name>> that os.path.join builds, and a base name *)
(* is the triple                                                           *)
(* <<prefix, uid, extension>> of the f-string that builds it.              *)
(* Clip durations are whole seconds; durations of files and caption times  *)
(* are milliseconds, the precision of the ":.3f" format.                   *)
(* Calls into third-party libraries (gTTS, qrcode, moviepy, PIL, webvtt,   *)
(* zipfile, streamlit) either return or raise: both outcomes are explored. *)
(***************************************************************************)
EXTENDS Integers, Sequences, FiniteSets, TLC

(***************************************************************************)
(* Bounds of the explored inputs.                                          *)
(***************************************************************************)
MaxScriptLen == 4
MaxDuration == 6

None == "None"

\* An exception class is written as the names of its __mro__, the class
\* itself first, without object.  NoException: no exception is in flight.
NoException == <<>>

(***************************************************************************)
(* String helpers (Python str semantics).                                  *)
(***************************************************************************)
NL == "\n"

Upper == <<"A", "B", "C", "D", "E", "F", "G", "H", "I", "J", "K", "L", "M",
           "N", "O", "P", "Q", "R", "S", "T", "U", "V", "W", "X", "Y", "Z">>

Lower == <<"a", "b", "c", "d", "e", "f", "g", "h", "i", "j", "k", "l", "m",
           "n", "o", "p", "q", "r", "s", "t", "u", "v", "w", "x", "y", "z">>

\* Cased characters outside ASCII and what str.lower makes of each: the
\* Latin-1 and Latin Extended-A capitals, KELVIN SIGN and ANGSTROM SIGN.
\* U+0130 lowers to two characters.  Other scripts are outside the
\* alphabet of this model.
NonAsciiLower ==
    <<<<"U+00C0", <<"U+00E0">>>>, <<"U+00C1", <<"U+00E1">>>>, <<"U+00C2", <<"U+00E2">>>>, <<"U+00C3", <<"U+00E3">>>>,
      <<"U+00C4", <<"U+00E4">>>>, <<"U+00C5", <<"U+00E5">>>>, <<"U+00C6", <<"U+00E6">>>>, <<"U+00C7", <<"U+00E7">>>>,
      <<"U+00C8", <<"U+00E8">>>>, <<"U+00C9", <<"U+00E9">>>>, <<"U+00CA", <<"U+00EA">>>>, <<"U+00CB", <<"U+00EB">>>>,
      <<"U+00CC", <<"U+00EC">>>>, <<"U+00CD", <<"U+00ED">>>>, <<"U+00CE", <<"U+00EE">>>>, <<"U+00CF", <<"U+00EF">>>>,
      <<"U+00D0", <<"U+00F0">>>>, <<"U+00D1", <<"U+00F1">>>>, <<"U+00D2", <<"U+00F2">>>>, <<"U+00D3", <<"U+00F3">>>>,
      <<"U+00D4", <<"U+00F4">>>>, <<"U+00D5", <<"U+00F5">>>>, <<"U+00D6", <<"U+00F6">>>>, <<"U+00D8", <<"U+00F8">>>>,
      <<"U+00D9", <<"U+00F9">>>>, <<"U+00DA", <<"U+00FA">>>>, <<"U+00DB", <<"U+00FB">>>>, <<"U+00DC", <<"U+00FC">>>>,
      <<"U+00DD", <<"U+00FD">>>>, <<"U+00DE", <<"U+00FE">>>>, <<"U+0100", <<"U+0101">>>>, <<"U+0102", <<"U+0103">>>>,
      <<"U+0104", <<"U+0105">>>>, <<"U+0106", <<"U+0107">>>>, <<"U+0108", <<"U+0109">>>>, <<"U+010A", <<"U+010B">>>>,
      <<"U+010C", <<"U+010D">>>>, <<"U+010E", <<"U+010F">>>>, <<"U+0110", <<"U+0111">>>>, <<"U+0112", <<"U+0113">>>>,
      <<"U+0114", <<"U+0115">>>>, <<"U+0116", <<"U+0117">>>>, <<"U+0118", <<"U+0119">>>>, <<"U+011A", <<"U+011B">>>>,
      <<"U+011C", <<"U+011D">>>>, <<"U+011E", <<"U+011F">>>>, <<"U+0120", <<"U+0121">>>>, <<"U+0122", <<"U+0123">>>>,
      <<"U+0124", <<"U+0125">>>>, <<"U+0126", <<"U+0127">>>>, <<"U+0128", <<"U+0129">>>>, <<"U+012A", <<"U+012B">>>>,
      <<"U+012C", <<"U+012D">>>>, <<"U+012E", <<"U+012F">>>>, <<"U+0130", <<"i", "U+0307">>>>,
      <<"U+0132", <<"U+0133">>>>, <<"U+0134", <<"U+0135">>>>, <<"U+0136", <<"U+0137">>>>, <<"U+0139", <<"U+013A">>>>,
      <<"U+013B", <<"U+013C">>>>, <<"U+013D", <<"U+013E">>>>, <<"U+013F", <<"U+0140">>>>, <<"U+0141", <<"U+0142">>>>,
      <<"U+0143", <<"U+0144">>>>, <<"U+0145", <<"U+0146">>>>, <<"U+0147", <<"U+0148">>>>, <<"U+014A", <<"U+014B">>>>,
      <<"U+014C", <<"U+014D">>>>, <<"U+014E", <<"U+014F">>>>, <<"U+0150", <<"U+0151">>>>, <<"U+0152", <<"U+0153">>>>,
      <<"U+0154", <<"U+0155">>>>, <<"U+0156", <<"U+0157">>>>, <<"U+0158", <<"U+0159">>>>, <<"U+015A", <<"U+015B">>>>,
      <<"U+015C", <<"U+015D">>>>, <<"U+015E", <<"U+015F">>>>, <<"U+0160", <<"U+0161">>>>, <<"U+0162", <<"U+0163">>>>,
      <<"U+0164", <<"U+0165">>>>, <<"U+0166", <<"U+0167">>>>, <<"U+0168", <<"U+0169">>>>, <<"U+016A", <<"U+016B">>>>,
      <<"U+016C", <<"U+016D">>>>, <<"U+016E", <<"U+016F">>>>, <<"U+0170", <<"U+0171">>>>, <<"U+0172", <<"U+0173">>>>,
      <<"U+0174", <<"U+0175">>>>, <<"U+0176", <<"U+0177">>>>, <<"U+0178", <<"U+00FF">>>>, <<"U+0179", <<"U+017A">>>>,
      <<"U+017B", <<"U+017C">>>>, <<"U+017D", <<"U+017E">>>>, <<"U+212A", <<"k">>>>, <<"U+212B", <<"U+00E5">>>>>>

\* str.lower() of one character: a string of one or two characters
LowerChar(c) ==
    IF \E k \in 1..26 : Upper[k] = c
    THEN <<Lower[CHOOSE k \in 1..26 : Upper[k] = c]>>
    ELSE IF \E k \in 1..Len(NonAsciiLower) : NonAsciiLower[k][1] = c
    THEN NonAsciiLower[CHOOSE k \in 1..Len(NonAsciiLower) : NonAsciiLower[k][1] = c][2]
    ELSE <<c>>

\* str.lower()
RECURSIVE lower(_)
lower(s) == IF s = <<>> THEN <<>> ELSE LowerChar(Head(s)) \o lower(Tail(s))

\* sub in s
Contains(s, sub) ==
    \E k \in 0..(Len(s) - Len(sub)) :
        \A j \in 1..Len(sub) : s[k + j] = sub[j]

\* sep.join(parts)
RECURSIVE Join(_, _)
Join(parts, sep) ==
    IF parts = <<>> THEN <<>>
    ELSE IF Len(parts) = 1 THEN parts[1]
    ELSE parts[1] \o sep \o Join(Tail(parts), sep)

\* s.split("\n"): the pieces between consecutive newlines, always at least one
Split(s) ==
    LET P == {k \in 1..Len(s) : s[k] = NL}
        n == Cardinality(P) + 1
        \* position of the j-th newline; 0 and Len(s)+1 bracket the text
        pos(j) == IF j = 0 THEN 0
                  ELSE IF j = n THEN Len(s) + 1
                  ELSE CHOOSE k \in P : Cardinality({q \in P : q < k}) = j - 1
    IN  [j \in 1..n |-> SubSeq(s, pos(j - 1) + 1, pos(j) - 1)]

(***************************************************************************)
(* class Config                                                            *)
(***************************************************************************)
APP_PASSWORD == "default_password"

VIDEO_SIZE == <<720, 1280>>

FONT_PATH == "assets/fonts/DejaVuSans-Bold.ttf"

BG_PATHS ==
    [Abstract |-> "assets/backgrounds/abstract.mp4",
     Nature   |-> "assets/backgrounds/nature.mp4",
     Tech     |-> "assets/backgrounds/tech.mp4"]

KeyGeneral == <<"g", "e", "n", "e", "r", "a", "l">>
KeyMarketing == <<"m", "a", "r", "k", "e", "t", "i", "n", "g">>
KeyFinance == <<"f", "i", "n", "a", "n", "c", "e">>

HASHTAGS ==
    (KeyGeneral :>
        << <<"#", "V", "i", "r", "a", "l", "2", "0", "2", "4">>,
           <<"#", "M", "o", "n", "e", "y", "H", "a", "c", "k">>,
           <<"#", "S", "u", "c", "c", "e", "s", "s", "T", "i", "p", "s">> >>)
    @@ (KeyMarketing :>
        << <<"#", "D", "i", "g", "i", "t", "a", "l", "M", "a", "r", "k", "e", "t", "i", "n", "g">>,
           <<"#", "S", "E", "O">>,
           <<"#", "G", "r", "o", "w", "t", "h", "H", "a", "c", "k", "i", "n", "g">> >>)
    @@ (KeyFinance :>
        << <<"#", "I", "n", "v", "e", "s", "t", "i", "n", "g">>,
           <<"#", "F", "i", "n", "a", "n", "c", "i", "a", "l", "F", "r", "e", "e", "d", "o", "m">>,
           <<"#", "W", "e", "a", "l", "t", "h", "B", "u", "i", "l", "d", "i", "n", "g">> >>)

\* dict.get(key, default)
HashtagsGet(key, default) ==
    IF key \in DOMAIN HASHTAGS THEN HASHTAGS[key] ELSE default

\* list[:3]
FirstThree(l) == SubSeq(l, 1, IF Len(l) < 3 THEN Len(l) ELSE 3)

(***************************************************************************)
(* generate_seo_content                                                    *)
(***************************************************************************)
SecretRevealed ==
    <<" ", "S", "e", "c", "r", "e", "t", " ", "R", "e", "v", "e", "a", "l",
      "e", "d", " ", "2", "0", "2", "4">>

DiscoverTheViral ==
    <<"D", "i", "s", "c", "o", "v", "e", "r", " ", "t", "h", "e", " ", "v",
      "i", "r", "a", "l", " ">>

MethodClickHere ==
    <<" ", "m", "e", "t", "h", "o", "d", ".", " ", "C", "l", "i", "c", "k",
      " ", "h", "e", "r", "e", ":", " ">>

MakeMoneyOnline ==
    <<"m", "a", "k", "e", " ", "m", "o", "n", "e", "y", " ", "o", "n", "l",
      "i", "n", "e">>

ViralMethod == <<"v", "i", "r", "a", "l", " ", "m", "e", "t", "h", "o", "d">>

generate_seo_content(niche, url) ==
    [title       |-> niche \o SecretRevealed,
     description |-> DiscoverTheViral \o niche \o MethodClickHere \o url,
     hashtags    |-> FirstThree(HashtagsGet(lower(niche), HASHTAGS[KeyGeneral])),
     keywords    |-> <<niche, MakeMoneyOnline, ViralMethod>>]

\* the f-string of process_generation that builds the script
BuildScript(seo) ==
    seo.title \o <<NL, NL>> \o seo.description \o <<NL, NL>>
        \o Join(seo.hashtags, <<" ">>)

(***************************************************************************)
(* create_video_thumbnail: a PIL image is its size and what was drawn.     *)
(***************************************************************************)
\* Image.new("RGB", size, color): size is (width, height)
ImageNew(size) == [size |-> size, drawn |-> <<>>]

\* ImageDraw.text(xy, text): draws in place, the canvas keeps its size
DrawText(img, xy, text) ==
    [img EXCEPT !.drawn = Append(@, [op |-> "text", xy |-> xy, text |-> text])]

\* Image.open(path).resize(size)
OpenResized(path, size) == [size |-> size, drawn |-> <<[op |-> "file", path |-> path]>>]

\* Image.paste(other, xy): pastes in place, the canvas keeps its size
Paste(img, other, xy) ==
    [img EXCEPT !.drawn = Append(@, [op |-> "paste", xy |-> xy, size |-> other.size])]

create_video_thumbnail_VideoSize(title, hashtags, qr_path) ==
    LET img  == ImageNew(VIDEO_SIZE)
        img1 == DrawText(img, <<100, 100>>, title)
        img2 == DrawText(img1, <<100, 600>>, Join(hashtags, <<" ">>))
        qr_img == OpenResized(qr_path, <<200, 200>>)
    IN  Paste(img2, qr_img, <<1000, 500>>)

create_video_thumbnail(title, hashtags, qr_path) ==
    LET img  == ImageNew(<<1280, 720>>)
        img1 == DrawText(img, <<100, 100>>, title)
        img2 == DrawText(img1, <<100, 600>>, Join(hashtags, <<" ">>))
        qr_img == OpenResized(qr_path, <<200, 200>>)
    IN  Paste(img2, qr_img, <<1000, 500>>)

(***************************************************************************)
(* generate_captions.  Values handed to webvtt are tagged by what they     *)
(* are: a formatted timing string, a line of text, or None.                *)
(***************************************************************************)
PyNone == [kind |-> "None"]

TextValue(line) == [kind |-> "text", chars |-> line]

\* f"{x:.3f}" for x = num/den milliseconds: the value printed, in
\* milliseconds.  The format rounds the value to the nearest millisecond
\* and a value lying halfway to the even one.  The code rounds the binary
\* float i * (duration / n): for durations that are multiples of half a
\* second and fewer than 24 lines that is the rounding of num/den itself.
Format3f(num, den) ==
    LET q == num \div den
        r == num % den
    IN  IF 2 * r > den \/ (2 * r = den /\ q % 2 = 1) THEN q + 1 ELSE q

\* f"{start:.3f} --> {end:.3f}"
TimingString(startMs, endMs) == [kind |-> "timing", from |-> startMs, to |-> endMs]

\* webvtt.Caption(start=None, end=None, text=None): positional parameters.
\* The library is not part of the source and its release is not fixed by it:
\* a release whose Caption checks its time stamps raises
\* MalformedCaptionError for the values the code passes, one that stores
\* them unchecked returns the caption with these fields.  The callers
\* explore both outcomes.
Caption(start, end, text) == [start |-> start, end |-> end, text |-> text]

\* duration in milliseconds
generate_captions(scr, duration) ==
    LET lines == Split(scr)
        n == Len(lines)
    IN  [k \in 1..n |->
            Caption(TimingString(Format3f((k - 1) * duration, n),
                                 Format3f(k * duration, n)),
                    TextValue(lines[k]),
                    PyNone)]

(***************************************************************************)
(* render_video: a moviepy clip is its duration and its layers.            *)
(***************************************************************************)
ClipSeconds == 3

RECURSIVE SumDurations(_)
SumDurations(clips) ==
    IF clips = <<>> THEN 0 ELSE Head(clips).duration + SumDurations(Tail(clips))

RECURSIVE MaxDurationOf(_)
MaxDurationOf(clips) ==
    IF clips = <<>> THEN 0
    ELSE LET m == MaxDurationOf(Tail(clips))
         IN  IF Head(clips).duration > m THEN Head(clips).duration ELSE m

\* TextClip(line, ..., size=Config.VIDEO_SIZE).set_duration(3)
TextClip(line) ==
    [layers |-> <<"text">>, size |-> VIDEO_SIZE, duration |-> ClipSeconds, audio |-> None]

\* concatenate_videoclips(clips, method="compose"): clips play one after another
concatenate_videoclips(clips) ==
    [layers |-> <<"captions">>, size |-> VIDEO_SIZE,
     duration |-> SumDurations(clips), audio |-> None]

\* VideoFileClip(path): the file's own duration
VideoFileClip(path, native) ==
    [layers |-> <<path>>, size |-> VIDEO_SIZE, duration |-> native, audio |-> None]

\* clip.loop(duration=d): the clip repeated and cut to d
Loop(clip, duration) == [clip EXCEPT !.duration = duration]

\* CompositeVideoClip(clips): all clips start at 0, it lasts as long as the longest
CompositeVideoClip(clips) ==
    [layers |-> clips[1].layers \o clips[2].layers, size |-> clips[1].size,
     duration |-> MaxDurationOf(clips), audio |-> None]

\* clip.set_audio(audio): the clip keeps its duration
SetAudio(clip, audio) == [clip EXCEPT !.audio = audio]

\* files: the existing background files and their durations (os.path.exists)
render_video(scr, audio_path, bg, files) ==
    LET lines == Split(scr)
        clips == [k \in 1..Len(lines) |-> TextClip(lines[k])]
        video == concatenate_videoclips(clips)
        withBg ==
            IF bg \in DOMAIN BG_PATHS /\ BG_PATHS[bg] \in DOMAIN files
            THEN LET bg_clip == Loop(VideoFileClip(BG_PATHS[bg], files[BG_PATHS[bg]]),
                                     video.duration)
                 IN  CompositeVideoClip(<<bg_clip, video>>)
            ELSE video
    IN  SetAudio(withBg, audio_path)

\* video.write_videofile(video_path, ...): the duration, in milliseconds,
\* the encoded file reports.  The frames cover the clip; the audio track
\* is written whole, render_video never cuts it to the clip.
EncodedDuration(clip, audioMs) ==
    IF audioMs > 1000 * clip.duration THEN audioMs ELSE 1000 * clip.duration

(***************************************************************************)
(* create_zip_package                                                      *)
(***************************************************************************)
\* os.path.join(tmp_dir, f"{prefix}{uid}{ext}")
PathJoin(dir, prefix, id, ext) == <<dir, <<prefix, id, ext>> >>

\* os.path.basename(path)
basename(path) == path[2]

\* the archive names written by zipf.write(file, os.path.basename(file))
create_zip_package(files) == [k \in 1..Len(files) |-> basename(files[k])]

(***************************************************************************)
(* The inputs a run of the script can see.                                 *)
(***************************************************************************)
Passwords == {APP_PASSWORD, "letmein", ""}

Niches ==
    { <<>>,
      <<"F", "i", "n", "a", "n", "c", "e">>,
      <<"m", "a", "r", "k", "e", "t", "i", "n", "g">> }

Urls == { <<>>, <<"x", ".", "c", "o">> }

\* st.selectbox offers list(Config.BG_PATHS.keys())
BgOptions == DOMAIN BG_PATHS

UIDs == {"1a2b3c4d"}

TmpDirs == {"/tmp/tmpk3v9"}

\* the duration, in seconds, of each background file when it is on disk:
\* one shorter and two longer than the captions of any explored script
BgDurations ==
    [p \in {BG_PATHS[k] : k \in DOMAIN BG_PATHS} |->
        IF p = BG_PATHS.Abstract THEN 2 ELSE 20]

\* durations, in milliseconds, the narration gTTS saves may have
AudioDurations == {12000, 17500}

BgPathSet == {BG_PATHS[k] : k \in DOMAIN BG_PATHS}

(***************************************************************************)
(* State.                                                                  *)
(***************************************************************************)
VARIABLES
    pc,          \* position of the script run: "idle" between runs
    password,    \* st.sidebar.text_input of this run
    niche,       \* form fields of this run
    url,
    bg_choice,
    submit,      \* st.form_submit_button of this run
    ui,          \* the streamlit elements this run has rendered, in order
    logged,      \* logging.exception calls of this run
    uid,
    tmp_dir,
    tmpdirs,     \* temporary directories that exist
    fs,          \* files that exist in temporary directories
    created,     \* files this run has created
    zipEntries,  \* archive names inside the zip of this run
    seo,
    script,
    video,
    thumbnail,
    captions,
    exc,         \* exception in flight
    failedAt,    \* stage that raised in this run
    failedCls,   \* class of the exception that stage raised
    handlerExc,  \* class of the exception the handler itself raised
    stagesRun,   \* stages this run has entered, in order
    readMissing, \* reads of a file that did not exist
    returned,    \* how process_generation ended in this run
    audioMs,     \* duration of the audio file, 0 when there is none
    videoFileMs, \* duration the encoded video file reports, 0 when none
    bgFiles,     \* background files on disk and their durations
    call         \* last direct call of a function and its result

vars ==
    <<pc, password, niche, url, bg_choice, submit, ui, logged, uid, tmp_dir,
      tmpdirs, fs, created, zipEntries, seo, script, video, thumbnail,
      captions, exc, failedAt, failedCls, handlerExc, stagesRun, readMissing,
      returned, audioMs,
      videoFileMs, bgFiles, call>>

inputVars == <<password, niche, url, bg_choice, submit>>

requestVars == <<uid, tmp_dir>>

resultVars ==
    <<zipEntries, seo, script, video, thumbnail, captions, audioMs, videoFileMs>>

audio_path == PathJoin(tmp_dir, "audio_", uid, ".mp3")
qr_path == PathJoin(tmp_dir, "qr_", uid, ".png")
video_path == PathJoin(tmp_dir, "video_", uid, ".mp4")
thumb_path == PathJoin(tmp_dir, "thumb_", uid, ".jpg")
captions_path == PathJoin(tmp_dir, "captions_", uid, ".vtt")
zip_path == PathJoin(tmp_dir, "package_", uid, ".zip")

\* what is the same before a run of the script and before a direct call
InitBase ==
    /\ pc = "idle"
    /\ password = ""
    /\ niche = <<>>
    /\ url = <<>>
    /\ bg_choice = "Abstract"
    /\ submit = FALSE
    /\ ui = <<>>
    /\ logged = 0
    /\ created = {}
    /\ zipEntries = <<>>
    /\ seo = None
    /\ script = <<>>
    /\ video = None
    /\ thumbnail = None
    /\ captions = <<>>
    /\ exc = NoException
    /\ failedAt = None
    /\ failedCls = NoException
    /\ handlerExc = NoException
    /\ stagesRun = <<>>
    /\ readMissing = {}
    /\ returned = None
    /\ videoFileMs = 0
    /\ call = [fn |-> "none"]

\* the background files on disk: all of Config.BG_PATHS or none
Assets == {BgPathSet, {}}

Init ==
    /\ InitBase
    /\ \E D \in Assets : bgFiles = [p \in D |-> BgDurations[p]]
    /\ uid = None
    /\ tmp_dir = None
    /\ tmpdirs = {}
    /\ fs = {}
    /\ audioMs = 0

(***************************************************************************)
(* main and authenticate_user                                              *)
(***************************************************************************)
authenticate_user_Open(pw) == TRUE

\* the value authenticate_user returns
authenticate_user(pw) == ~(pw # APP_PASSWORD)

\* One run of main up to the call of process_generation.
Main(pw, n, u, bg, sub) ==
    /\ pc = "idle"
    /\ password' = pw
    /\ logged' = 0
    /\ created' = {}
    /\ zipEntries' = <<>>
    /\ seo' = None
    /\ script' = <<>>
    /\ video' = None
    /\ thumbnail' = None
    /\ captions' = <<>>
    /\ exc' = NoException
    /\ failedAt' = None
    /\ failedCls' = NoException
    /\ handlerExc' = NoException
    /\ stagesRun' = <<>>
    /\ readMissing' = {}
    /\ returned' = None
    /\ audioMs' = 0
    /\ videoFileMs' = 0
    /\ IF ~authenticate_user(pw)
       THEN /\ ui' = <<"sidebar.text_input", "sidebar.error">>
            /\ niche' = <<>>
            /\ url' = <<>>
            /\ bg_choice' = "Abstract"
            /\ submit' = FALSE
            /\ pc' = "idle"
       ELSE /\ ui' = <<"sidebar.text_input", "title", "form">>
            /\ niche' = n
            /\ url' = u
            /\ bg_choice' = bg
            /\ submit' = sub
            /\ pc' = IF sub THEN "process_generation" ELSE "idle"
    /\ UNCHANGED <<uid, tmp_dir, tmpdirs, fs, bgFiles, call>>

(***************************************************************************)
(* process_generation                                                      *)
(***************************************************************************)
Stages_ThumbnailBeforeQr ==
    <<"seo", "script", "audio", "thumbnail", "qr", "video", "captions", "zip", "show">>

\* the statements of the try block, in program order
Stages ==
    <<"seo", "script", "audio", "qr", "video", "thumbnail", "captions", "zip", "show">>

StageIndex(stage) == CHOOSE k \in 1..Len(Stages) : Stages[k] = stage

\* where control goes when a stage returns
NextStage(stage) ==
    IF StageIndex(stage) < Len(Stages) THEN Stages[StageIndex(stage) + 1] ELSE "exit_with"

\* Classes of the exceptions that can be raised while a statement of the
\* try block runs: those of the libraries the stages call, built-in ones
\* below Exception, and the ones outside Exception (interrupts, generator
\* and task cancellation, streamlit's script control).  Any of them can
\* reach any stage.
StageErrors ==
    { <<"MemoryError", "Exception", "BaseException">>,
      <<"FileNotFoundError", "OSError", "Exception", "BaseException">>,
      <<"gTTSError", "Exception", "BaseException">>,
      <<"DataOverflowError", "Exception", "BaseException">>,
      <<"MalformedCaptionError", "Exception", "BaseException">>,
      <<"LargeZipFile", "Exception", "BaseException">>,
      <<"StreamlitAPIException", "MarkdownFormattedException", "Error",
        "Exception", "BaseException">>,
      <<"KeyboardInterrupt", "BaseException">>,
      <<"SystemExit", "BaseException">>,
      <<"GeneratorExit", "BaseException">>,
      <<"CancelledError", "BaseException">>,
      <<"StopException", "ScriptControlException", "BaseException">>,
      <<"RerunException", "ScriptControlException", "BaseException">> }

\* Classes of the exceptions st.error and logging.exception can raise
\* inside the handler.
HandlerErrors ==
    { <<"StreamlitAPIException", "MarkdownFormattedException", "Error",
        "Exception", "BaseException">>,
      <<"KeyboardInterrupt", "BaseException">> }

Catches_OSErrorOnly(cls) == \E k \in 1..Len(cls) : cls[k] = "OSError"

\* except Exception: the handler takes an exception when Exception is in
\* the __mro__ of its class
Catches(cls) == \E k \in 1..Len(cls) : cls[k] = "Exception"

\* uid = uuid.uuid4().hex[:8]; with tempfile.TemporaryDirectory() as tmp_dir
EnterProcessGeneration(id, dir) ==
    /\ pc = "process_generation"
    /\ dir \notin tmpdirs
    /\ uid' = id
    /\ tmp_dir' = dir
    /\ tmpdirs' = tmpdirs \cup {dir}
    /\ pc' = Stages[1]
    /\ UNCHANGED <<inputVars, ui, logged, fs, created, resultVars, exc,
                   failedAt, failedCls, handlerExc,
                   stagesRun, readMissing, returned, bgFiles, call>>

\* Control part of a stage: it reads `reads`, and returns (ok) or raises cls.
\* Reading a file that does not exist raises.
StageControl(stage, reads, ok, cls) ==
    /\ pc = stage
    /\ ok => reads \subseteq fs
    /\ stagesRun' = Append(stagesRun, stage)
    /\ readMissing' = readMissing \cup {<<stage, p[2][1]>> : p \in reads \ fs}
    /\ pc' = IF ok THEN NextStage(stage) ELSE "except"
    /\ exc' = IF ok THEN NoException ELSE cls
    /\ failedAt' = IF ok THEN failedAt ELSE stage
    /\ failedCls' = IF ok THEN failedCls ELSE cls
    /\ handlerExc' = handlerExc

\* File part of a stage: it writes `path`, wholly when it returns and
\* possibly when it raises.
StageWrites(path, ok, partial) ==
    /\ fs' = IF ok \/ partial THEN fs \cup {path} ELSE fs
    /\ created' = IF ok \/ partial THEN created \cup {path} ELSE created

\* What a call of render_video does to the files: AudioFileClip(audio_path)
\* raises before anything is written when the audio file is missing; the
\* video file is written wholly when the call returns and possibly in part
\* when write_videofile raises.
RenderVideoEffect(scr, bg, ok, partial) ==
    /\ (ok \/ partial) => audio_path \in fs
    /\ StageWrites(video_path, ok, partial)
    /\ video' = IF ok THEN render_video(scr, audio_path, bg, bgFiles) ELSE video
    /\ videoFileMs' =
          IF ok THEN EncodedDuration(render_video(scr, audio_path, bg, bgFiles), audioMs)
          ELSE videoFileMs

\* seo = generate_seo_content(niche, url)
GenerateSEO(ok, cls) ==
    /\ StageControl("seo", {}, ok, cls)
    /\ seo' = IF ok THEN generate_seo_content(niche, url) ELSE seo
    /\ UNCHANGED <<inputVars, requestVars, ui, logged, tmpdirs, fs, created,
                   zipEntries, script, video, thumbnail, captions, audioMs,
                   videoFileMs, returned,
                   bgFiles, call>>

\* script = f"{seo['title']}\n\n{seo['description']}\n\n{' '.join(seo['hashtags'])}"
CreateScript(ok, cls) ==
    /\ StageControl("script", {}, ok, cls)
    /\ script' = IF ok THEN BuildScript(seo) ELSE script
    /\ UNCHANGED <<inputVars, requestVars, ui, logged, tmpdirs, fs, created,
                   zipEntries, seo, video, thumbnail, captions, audioMs,
                   videoFileMs, returned,
                   bgFiles, call>>

\* gTTS(script).save(audio_path)
GenerateAudio(ok, partial, cls, ms) ==
    /\ StageControl("audio", {}, ok, cls)
    /\ StageWrites(audio_path, ok, partial)
    /\ audioMs' = IF ok THEN ms ELSE audioMs
    /\ UNCHANGED <<inputVars, requestVars, ui, logged, tmpdirs, zipEntries, seo,
                   script, video, thumbnail, captions, videoFileMs, returned,
                   bgFiles, call>>

\* qrcode.make(url).save(qr_path)
GenerateQR(ok, partial, cls) ==
    /\ StageControl("qr", {}, ok, cls)
    /\ StageWrites(qr_path, ok, partial)
    /\ UNCHANGED <<inputVars, requestVars, ui, logged, tmpdirs, resultVars,
                   returned, bgFiles, call>>

\* video_path = render_video(script, audio_path, bg_choice, uid, tmp_dir)
CreateVideo(ok, partial, cls) ==
    /\ StageControl("video", {audio_path}, ok, cls)
    /\ RenderVideoEffect(script, bg_choice, ok, partial)
    /\ UNCHANGED <<inputVars, requestVars, ui, logged, tmpdirs, zipEntries, seo,
                   script, thumbnail, captions, audioMs, returned, bgFiles, call>>

\* thumbnail = create_video_thumbnail(...); thumbnail.save(thumb_path)
GenerateThumbnail(ok, partial, cls) ==
    /\ StageControl("thumbnail", {qr_path}, ok, cls)
    /\ StageWrites(thumb_path, ok, partial)
    /\ thumbnail' = IF ok THEN create_video_thumbnail(seo.title, seo.hashtags, qr_path)
                    ELSE thumbnail
    /\ UNCHANGED <<inputVars, requestVars, ui, logged, tmpdirs, zipEntries, seo,
                   script, video, captions, audioMs, videoFileMs, returned,
                   bgFiles, call>>

\* captions = generate_captions(script, VideoFileClip(video_path).duration)
\* captions.save(captions_path)
\* It returns only with a caption library that accepts the values
\* generate_captions passes to webvtt.Caption; with one that rejects them
\* every request raises here and the zip and display stages never run.
CreateCaptions(ok, partial, cls) ==
    /\ StageControl("captions", {video_path}, ok, cls)
    /\ StageWrites(captions_path, ok, partial)
    /\ captions' = IF ok THEN generate_captions(script, videoFileMs) ELSE captions
    /\ UNCHANGED <<inputVars, requestVars, ui, logged, tmpdirs, zipEntries, seo,
                   script, video, thumbnail, audioMs, videoFileMs, returned,
                   bgFiles, call>>

\* zip_path = create_zip_package(tmp_dir, uid,
\*                [video_path, audio_path, thumb_path, captions_path])
CreateZip(ok, partial, cls) ==
    /\ StageControl("zip", {video_path, audio_path, thumb_path, captions_path},
                    ok, cls)
    /\ StageWrites(zip_path, ok, partial)
    /\ zipEntries' =
          IF ok
          THEN create_zip_package(<<video_path, audio_path, thumb_path, captions_path>>)
          ELSE zipEntries
    /\ UNCHANGED <<inputVars, requestVars, ui, logged, tmpdirs, seo, script,
                   video, thumbnail, captions, audioMs, videoFileMs, returned,
                   bgFiles, call>>

\* the elements show_results renders, in order
ShowElements == <<"video", "image", "download_button", "success">>

\* show_results(zip_path, video_path, thumb_path, start_time): it returns
\* (shown = 4) or raises at the element after the first `shown`
ShowResults(shown, cls) ==
    /\ StageControl("show", {video_path, thumb_path, zip_path},
                    shown = Len(ShowElements), cls)
    /\ ui' = ui \o SubSeq(ShowElements, 1, shown)
    /\ UNCHANGED <<inputVars, requestVars, logged, tmpdirs, fs, created,
                   resultVars, returned, bgFiles, call>>

\* except Exception as e: st.error(...); logging.exception(...)
\* An exception the handler does not take leaves the try statement as it
\* is.  Inside the handler st.error returns (errOk) or raises cls before
\* the message is shown; then logging.exception returns (logOk) or raises
\* cls, with the record written or not (emitted).  What the handler raises
\* leaves the try statement in place of the exception it was handling.
Except(errOk, logOk, emitted, cls) ==
    /\ pc = "except"
    /\ IF Catches(exc)
       THEN /\ ui' = IF errOk THEN Append(ui, "error") ELSE ui
            /\ logged' = IF errOk /\ (logOk \/ emitted) THEN logged + 1 ELSE logged
            /\ exc' = IF errOk /\ logOk THEN NoException ELSE cls
            /\ handlerExc' = IF errOk /\ logOk THEN NoException ELSE cls
       ELSE UNCHANGED <<ui, logged, exc, handlerExc>>
    /\ pc' = "exit_with"
    /\ UNCHANGED <<inputVars, requestVars, tmpdirs, fs, created, resultVars,
                   failedAt, failedCls, stagesRun, readMissing, returned,
                   bgFiles, call>>

Cleanup_KeepZip(dir) ==
    {p \in fs : p[1] # dir \/ p[2][1] = "package_"}

\* TemporaryDirectory.__exit__: the files left once dir is removed
Cleanup(dir) == {p \in fs : p[1] # dir}

\* end of the with block, return to main, end of the run
ExitWith ==
    /\ pc = "exit_with"
    /\ fs' = Cleanup(tmp_dir)
    /\ tmpdirs' = IF \E p \in fs' : p[1] = tmp_dir THEN tmpdirs ELSE tmpdirs \ {tmp_dir}
    /\ returned' = IF exc = NoException THEN "normally" ELSE "raised"
    /\ pc' = "idle"
    /\ UNCHANGED <<inputVars, requestVars, ui, logged, created, resultVars, exc,
                   failedAt, failedCls, handlerExc, stagesRun, readMissing,
                   bgFiles, call>>

\* the form fields of a run: they exist only in a run that renders the
\* form, and a run in which the button is not pressed leaves them as they
\* are rendered
FormInputs(pw) ==
    IF authenticate_user(pw)
    THEN (Niches \X Urls \X BgOptions \X {TRUE})
            \cup {<< <<>>, <<>>, "Abstract", FALSE >>}
    ELSE {<< <<>>, <<>>, "Abstract", FALSE >>}

Next ==
    \/ \E pw \in Passwords : \E f \in FormInputs(pw) : Main(pw, f[1], f[2], f[3], f[4])
    \/ \E id \in UIDs, dir \in TmpDirs : EnterProcessGeneration(id, dir)
    \/ \E ok \in BOOLEAN, cls \in StageErrors : GenerateSEO(ok, cls)
    \/ \E ok \in BOOLEAN, cls \in StageErrors : CreateScript(ok, cls)
    \/ \E ok \in BOOLEAN, partial \in BOOLEAN, cls \in StageErrors,
          ms \in AudioDurations : GenerateAudio(ok, partial, cls, ms)
    \/ \E ok \in BOOLEAN, partial \in BOOLEAN, cls \in StageErrors :
          GenerateQR(ok, partial, cls)
    \/ \E ok \in BOOLEAN, partial \in BOOLEAN, cls \in StageErrors :
          CreateVideo(ok, partial, cls)
    \/ \E ok \in BOOLEAN, partial \in BOOLEAN, cls \in StageErrors :
          GenerateThumbnail(ok, partial, cls)
    \/ \E ok \in BOOLEAN, partial \in BOOLEAN, cls \in StageErrors :
          CreateCaptions(ok, partial, cls)
    \/ \E ok \in BOOLEAN, partial \in BOOLEAN, cls \in StageErrors :
          CreateZip(ok, partial, cls)
    \/ \E shown \in 0..Len(ShowElements), cls \in StageErrors :
          ShowResults(shown, cls)
    \/ \E errOk \in BOOLEAN, logOk \in BOOLEAN, emitted \in BOOLEAN,
          cls \in HandlerErrors : Except(errOk, logOk, emitted, cls)
    \/ ExitWith

Spec == Init /\ [][Next]_vars

(***************************************************************************)
(* Direct calls of render_video and generate_captions on arbitrary         *)
(* scripts, background choices and durations: one call per behaviour, the  *)
(* functions keep no state between calls.  A call returns or raises; what  *)
(* it raises reaches the caller.                                           *)
(***************************************************************************)
Scripts == UNION {[1..k -> {"a", NL}] : k \in 0..MaxScriptLen}

\* the selectbox options and a choice that is no key of Config.BG_PATHS
BgChoices == BgOptions \cup {"Plain black"}

\* classes of the exceptions a direct call is made to raise: one the
\* called code raises for a missing file, one of the caption library, one
\* outside Exception
CallErrors ==
    { <<"FileNotFoundError", "OSError", "Exception", "BaseException">>,
      <<"MalformedCaptionError", "Exception", "BaseException">>,
      <<"KeyboardInterrupt", "BaseException">> }

\* durations in milliseconds
Durations == {500 * k : k \in 0..MaxDuration}

\* before a direct call: a temporary directory, with or without the audio file
InitFn ==
    /\ InitBase
    /\ \E D \in SUBSET BgPathSet : bgFiles = [p \in D |-> BgDurations[p]]
    /\ uid = "1a2b3c4d"
    /\ tmp_dir \in TmpDirs
    /\ tmpdirs = {tmp_dir}
    /\ \E ms \in AudioDurations \cup {0} :
          /\ audioMs = ms
          /\ fs = IF ms = 0 THEN {} ELSE {audio_path}

\* render_video(scr, audio_path, bg, uid, tmp_dir)
CallRenderVideo(scr, bg, ok, partial, cls) ==
    /\ call.fn = "none"
    /\ RenderVideoEffect(scr, bg, ok, partial)
    /\ exc' = IF ok THEN NoException ELSE cls
    /\ call' = [fn |-> "render_video", script |-> scr, bg_choice |-> bg,
                outcome |-> IF ok THEN "returned" ELSE "raised",
                result |-> IF ok THEN video_path ELSE <<>>]
    /\ UNCHANGED <<pc, inputVars, ui, logged, requestVars, tmpdirs, zipEntries,
                   seo, script, thumbnail, captions, audioMs, failedAt,
                   failedCls, handlerExc, stagesRun,
                   readMissing, returned, bgFiles>>

\* generate_captions(scr, d)
CallGenerateCaptions(scr, d, ok, cls) ==
    /\ call.fn = "none"
    /\ exc' = IF ok THEN NoException ELSE cls
    /\ call' = [fn |-> "generate_captions", script |-> scr, duration |-> d,
                outcome |-> IF ok THEN "returned" ELSE "raised",
                result |-> IF ok THEN generate_captions(scr, d) ELSE <<>>]
    /\ UNCHANGED <<pc, inputVars, ui, logged, requestVars, tmpdirs, fs, created,
                   resultVars, failedAt, failedCls, handlerExc, stagesRun,
                   readMissing, returned, bgFiles>>

NextFn ==
    \/ \E scr \in Scripts, bg \in BgChoices, ok \in BOOLEAN, partial \in BOOLEAN,
          cls \in CallErrors : CallRenderVideo(scr, bg, ok, partial, cls)
    \/ \E scr \in Scripts, d \in Durations, ok \in BOOLEAN, cls \in CallErrors :
          CallGenerateCaptions(scr, d, ok, cls)

SpecFn == InitFn /\ [][NextFn]_vars

(***************************************************************************)
(* Properties.                                                             *)
(***************************************************************************)
\* the stage ran in this run and returned
Done(stage) ==
    /\ \E k \in 1..Len(stagesRun) : stagesRun[k] = stage
    /\ failedAt # stage

Count(seq, x) == Cardinality({k \in 1..Len(seq) : seq[k] = x})

\* a text with its spaces removed
RECURSIVE RemoveSpaces(_)
RemoveSpaces(s) ==
    IF s = <<>> THEN <<>>
    ELSE IF Head(s) = " " THEN RemoveSpaces(Tail(s))
    ELSE <<Head(s)>> \o RemoveSpaces(Tail(s))

\* a caption time of ms milliseconds
StampValue(ms) == [kind |-> "stamp", ms |-> ms]

\* number of lines of a text: one more than its newline characters
NumLines(s) == Count(s, NL) + 1

\* names of the classes that do not derive from Exception
OutsideException ==
    {"BaseException", "BaseExceptionGroup", "KeyboardInterrupt", "SystemExit",
     "GeneratorExit", "CancelledError", "ScriptControlException",
     "StopException", "RerunException"}

\* C1 (as amended): when a stage of process_generation raises, no later
\* stage runs, the success message is not shown, and the failure message
\* is shown and the error logged at most once.  An exception of a class
\* outside Exception is not handled: no failure message, nothing logged,
\* and it leaves process_generation.  Any other exception is handled: when
\* st.error and logging.exception have returned, the failure message was
\* shown exactly once, the error was logged exactly once, and
\* process_generation returns normally; when one of the two raises, what
\* it raised leaves process_generation.
C1_ExceptionCaughtOnce ==
    failedAt # None =>
        /\ stagesRun[Len(stagesRun)] = failedAt
        /\ Count(ui, "success") = 0
        /\ Count(ui, "error") <= 1
        /\ logged <= Count(ui, "error")
        /\ failedCls[1] \in OutsideException =>
              /\ Count(ui, "error") = 0
              /\ logged = 0
              /\ handlerExc = NoException
              /\ exc = failedCls
              /\ pc = "idle" => returned = "raised"
        /\ failedCls[1] \notin OutsideException =>
              /\ (pc \in {"exit_with", "idle"} /\ handlerExc = NoException) =>
                    /\ Count(ui, "error") = 1
                    /\ logged = 1
                    /\ exc = NoException
              /\ handlerExc # NoException => exc = handlerExc
              /\ pc = "idle" =>
                    returned = IF handlerExc = NoException THEN "normally" ELSE "raised"

C1_Witness ==
    /\ pc = "idle"
    /\ failedAt = "video"
    /\ failedCls = <<"FileNotFoundError", "OSError", "Exception", "BaseException">>
    /\ handlerExc = NoException
    /\ returned = "normally"
    /\ Count(ui, "error") = 1
    /\ logged = 1

\* C1: whatever a stage raises, the failure message is shown at most once,
\* and when the run has ended it was shown exactly once, the error was
\* logged exactly once and process_generation returned normally.
C1_FailureCaughtOnce ==
    failedAt # None =>
        /\ stagesRun[Len(stagesRun)] = failedAt
        /\ Count(ui, "success") = 0
        /\ Count(ui, "error") <= 1
        /\ logged = Count(ui, "error")
        /\ pc = "idle" =>
              /\ Count(ui, "error") = 1
              /\ logged = 1
              /\ exc = NoException
              /\ returned = "normally"

\* C2: a submission with an empty niche or an empty url creates no file
\* and ends with an error message.
C2_EmptyFieldCreatesNothing ==
    (submit /\ (niche = <<>> \/ url = <<>>)) =>
        /\ created = {}
        /\ pc = "idle" => Count(ui, "error") >= 1

\* C3: in a run whose password differs from Config.APP_PASSWORD the form is
\* not rendered, process_generation is not entered and no file is created;
\* process_generation is only ever running under the right password.
C3_WrongPasswordBlocks ==
    /\ password # APP_PASSWORD =>
          /\ Count(ui, "form") = 0
          /\ stagesRun = <<>>
          /\ created = {}
          /\ fs = {}
    /\ pc # "idle" => password = APP_PASSWORD

C3_Witness ==
    /\ password = "letmein"
    /\ Count(ui, "sidebar.error") = 1
    /\ pc = "idle"

\* C4: once the zip stage has returned, the archive holds exactly four
\* entries, the base names script_<id>.txt, audio_<id>.mp3, video_<id>.mp4
\* and thumbnail_<id>.jpg, with no directory component.
C4_ZipHoldsScriptAudioVideoThumbnail ==
    Done("zip") =>
        /\ Len(zipEntries) = 4
        /\ {zipEntries[k] : k \in 1..Len(zipEntries)} =
              { <<"script_", uid, ".txt">>, <<"audio_", uid, ".mp3">>,
                <<"video_", uid, ".mp4">>, <<"thumbnail_", uid, ".jpg">> }

\* C5: for non-empty niche and url the script contains the niche, the url
\* and the hashtag "#" followed by the niche with its spaces removed and
\* lowercased.
C5_ScriptHasNicheDerivedHashtag ==
    (Done("script") /\ niche # <<>> /\ url # <<>>) =>
        /\ Contains(script, niche)
        /\ Contains(script, url)
        /\ Contains(script, <<"#">> \o lower(RemoveSpaces(niche)))

\* C6: when process_generation has ended, however it ended, no file of the
\* request and no temporary directory is left.
C6_NothingLeftBehind ==
    pc = "idle" => (fs = {} /\ tmpdirs = {})

C6_Witness ==
    /\ pc = "idle"
    /\ failedAt = "video"
    /\ audio_path \in created
    /\ qr_path \in created
    /\ fs = {}

\* C7: the video file a returned call of render_video has written lasts
\* 3 seconds per line of the script, whatever the background choice, the
\* background files on disk and the audio track.
C7_VideoLastsThreeSecondsPerLine ==
    (call.fn = "render_video" /\ call.outcome = "returned") =>
        /\ call.result \in fs
        /\ videoFileMs = 3000 * NumLines(call.script)

\* C8 (as amended): the thumbnail is always 1280 wide and 720 high.
C8_ThumbnailIs1280By720 ==
    Done("thumbnail") => thumbnail.size = <<1280, 720>>

C8_Witness ==
    /\ Done("thumbnail")
    /\ niche = <<"m", "a", "r", "k", "e", "t", "i", "n", "g">>

\* C8 as stated: the thumbnail is always 720 wide and 1280 high.
C8_ThumbnailIs720By1280 ==
    Done("thumbnail") => thumbnail.size = <<720, 1280>>

\* C9: the stages run in one fixed order and no stage reads a file that
\* does not exist yet: every file a stage reads is there when the stage is
\* about to run, and show_results runs while the temporary directory exists.
C9_StagesInOrderReadAfterWrite ==
    /\ readMissing = {}
    /\ Len(stagesRun) <= 9
    /\ stagesRun = SubSeq(<<"seo", "script", "audio", "qr", "video", "thumbnail",
                            "captions", "zip", "show">>, 1, Len(stagesRun))
    /\ pc = "video" => audio_path \in fs
    /\ pc = "thumbnail" => qr_path \in fs
    /\ pc = "captions" => video_path \in fs
    /\ pc = "zip" => {video_path, audio_path, thumb_path, captions_path} \subseteq fs
    /\ pc = "show" =>
          /\ {zip_path, video_path, thumb_path} \subseteq fs
          /\ tmp_dir \in tmpdirs

C9_Witness ==
    /\ pc = "exit_with"
    /\ Len(stagesRun) = 9
    /\ failedAt = None
    /\ zip_path \in fs

\* C10: generate_captions returns one caption per line, in order, caption k
\* starting at (k-1)*d/n, ending at k*d/n and carrying line k as its text.
C10_CaptionsSpanEqualSegments ==
    call.fn = "generate_captions" =>
        LET n == NumLines(call.script)
            d == call.duration
        IN  /\ call.outcome = "returned"
            /\ Len(call.result) = n
            /\ \A k \in 1..n :
                  /\ call.result[k].start = StampValue(Format3f((k - 1) * d, n))
                  /\ call.result[k].end = StampValue(Format3f(k * d, n))
                  /\ call.result[k].text = TextValue(Split(call.script)[k])

====
